---------------------------- MODULE Spec2Model ----------------------------
(***************************************************************************)
(* epubshrink: the EPUB minimizer of src/src/main.rs.                      *)
(*                                                                         *)
(* Spec        the two-pass pipeline of main(): pass 1 over every entry of *)
(*             the source archive, pass 2 over the deferred font entries,  *)
(*             then the sealing of the output archive.                     *)
(* SpecTrim    the per-line trimming of an XHTML buffer (lines 103-111),   *)
(*             applied to every byte document of a bounded set.            *)
(* SpecQuality image_quality_in_range (lines 146-157), applied to every    *)
(*             command-line string of a bounded set.                       *)
(*                                                                         *)
(* Bytes and UTF-16 code units are integers, a payload is a sequence of    *)
(* bytes, a String is the sequence of its Unicode scalar values, and an    *)
(* entry name is the sequence of its characters.                           *)
(***************************************************************************)
EXTENDS Integers, Sequences, FiniteSets, TLC

VARIABLES
    args,        \* Args: the images / fonts / xhtml flags
    archive,     \* the source ZipArchive: a sequence of entries
    pc,          \* position of main(): scan, fonts, finish, done, panic
    i,           \* index of the pass-1 loop (0-based, as in the code)
    zip,         \* the ZipWriter: the entries written so far, in order
    font_files,  \* Vec of the indices of the deferred font entries
    used_chars,  \* HashSet<u16> of the used characters
    used_vec,    \* the Vec<u16> drained from used_chars (as the set of its elements)
    fi,          \* position of the pass-2 loop in font_files (1-based)
    handled,     \* history: the branch of the if-chain taken for each entry
    calls,       \* history: the invocations of subsetter::subset
    sealed,      \* TRUE once zip.finish() has returned
    t,           \* SpecTrim: the document and the results of trimming it
    q            \* SpecQuality: the argument string and the validator's result

vars == <<args, archive, pc, i, zip, font_files, used_chars, used_vec, fi,
          handled, calls, sealed, t, q>>

pipeVars == <<args, archive, pc, i, zip, font_files, used_chars, used_vec, fi,
              handled, calls, sealed>>

-----------------------------------------------------------------------------
(* Bounds of the model *)

\* longest source archive
MaxEntries == 3

\* longest byte document handed to the trimming step in SpecTrim
MaxDocLen == 4

\* longest argument string handed to the validator in SpecQuality
MaxArgLen == 3

\* The longest buffer one call of Write::write is sure to take whole.  The
\* ZipWriter hands a write call to its deflate encoder, which takes input only
\* while its output buffer (32 KiB) has room; the model scales that down.
WriteCapacity == 24

-----------------------------------------------------------------------------
(* Strings *)

\* str::ends_with
EndsWith(s, suffix) ==
    /\ Len(s) >= Len(suffix)
    /\ SubSeq(s, Len(s) - Len(suffix) + 1, Len(s)) = suffix

ExtJpg == <<".", "j", "p", "g">>
ExtOtf == <<".", "o", "t", "f">>
ExtXhtml == <<".", "x", "h", "t", "m", "l">>

\* UTF-8 continuation byte
IsCont(b) == b >= 128 /\ b <= 191

\* Length of the well-formed UTF-8 sequence starting at bs[p], 0 when there is
\* none (what core::str::from_utf8 accepts: no overlong forms, no surrogates,
\* nothing above U+10FFFF).
Utf8Width(bs, p) ==
    LET n == Len(bs)
        b0 == bs[p]
        C(k) == p + k <= n /\ IsCont(bs[p + k])
    IN  IF b0 < 128 THEN 1
        ELSE IF b0 >= 194 /\ b0 <= 223 THEN (IF C(1) THEN 2 ELSE 0)
        ELSE IF b0 = 224
            THEN (IF p + 1 <= n /\ bs[p + 1] >= 160 /\ bs[p + 1] <= 191 /\ C(2) THEN 3 ELSE 0)
        ELSE IF b0 = 237
            THEN (IF p + 1 <= n /\ bs[p + 1] >= 128 /\ bs[p + 1] <= 159 /\ C(2) THEN 3 ELSE 0)
        ELSE IF b0 >= 225 /\ b0 <= 239 THEN (IF C(1) /\ C(2) THEN 3 ELSE 0)
        ELSE IF b0 = 240
            THEN (IF p + 1 <= n /\ bs[p + 1] >= 144 /\ bs[p + 1] <= 191 /\ C(2) /\ C(3) THEN 4 ELSE 0)
        ELSE IF b0 = 244
            THEN (IF p + 1 <= n /\ bs[p + 1] >= 128 /\ bs[p + 1] <= 143 /\ C(2) /\ C(3) THEN 4 ELSE 0)
        ELSE IF b0 >= 241 /\ b0 <= 243 THEN (IF C(1) /\ C(2) /\ C(3) THEN 4 ELSE 0)
        ELSE 0

\* Whether bs from position p on is a run of well-formed sequences
Utf8ValidFrom(bs, p) ==
    LET ok[k \in 1..(Len(bs) + 1)] ==
            IF k > Len(bs) THEN TRUE
            ELSE LET w == Utf8Width(bs, k)
                 IN  IF w = 0 THEN FALSE ELSE ok[k + w]
    IN  ok[p]

\* String::from_utf8(in_data) is Ok
Utf8Valid(bs) == Utf8ValidFrom(bs, 1)

\* The scalar value of the well-formed sequence of width w at bs[p]
Utf8Scalar(bs, p, w) ==
    IF w = 1 THEN bs[p]
    ELSE IF w = 2 THEN (bs[p] - 192) * 64 + (bs[p + 1] - 128)
    ELSE IF w = 3 THEN (bs[p] - 224) * 4096 + (bs[p + 1] - 128) * 64 + (bs[p + 2] - 128)
    ELSE (bs[p] - 240) * 262144 + (bs[p + 1] - 128) * 4096
         + (bs[p + 2] - 128) * 64 + (bs[p + 3] - 128)

\* The chars of the well-formed bs from position p on
Utf8DecodeFrom(bs, p) ==
    LET chars[k \in 1..(Len(bs) + 1)] ==
            IF k > Len(bs) THEN <<>>
            ELSE LET w == Utf8Width(bs, k)
                 IN  <<Utf8Scalar(bs, k, w)>> \o chars[k + w]
    IN  chars[p]

\* The String that String::from_utf8(in_data) holds when it is Ok
FromUtf8(bs) == Utf8DecodeFrom(bs, 1)

\* The UTF-8 bytes of one char
EncodeChar(c) ==
    IF c < 128 THEN <<c>>
    ELSE IF c < 2048 THEN <<192 + (c \div 64), 128 + (c % 64)>>
    ELSE IF c < 65536
        THEN <<224 + (c \div 4096), 128 + ((c \div 64) % 64), 128 + (c % 64)>>
    ELSE <<240 + (c \div 262144), 128 + ((c \div 4096) % 64),
           128 + ((c \div 64) % 64), 128 + (c % 64)>>

\* String::as_bytes
AsBytes(s) ==
    LET bytes[u \in Seq(Nat)] ==
            IF u = <<>> THEN <<>> ELSE EncodeChar(Head(u)) \o bytes[Tail(u)]
    IN  bytes[s]

\* The code units str::encode_utf16 yields for one char
Utf16OfChar(c) ==
    IF c < 65536 THEN {c}
    ELSE {55296 + ((c - 65536) \div 1024), 56320 + ((c - 65536) % 1024)}

\* The set of the code units buffer.encode_utf16() yields
EncodeUtf16(s) == UNION {Utf16OfChar(s[k]) : k \in 1..Len(s)}

\* char::is_whitespace (the Unicode White_Space property)
IsWhitespace(c) ==
    \/ c >= 9 /\ c <= 13
    \/ c \in {32, 133, 160, 5760, 8232, 8233, 8239, 8287, 12288}
    \/ c >= 8192 /\ c <= 8202

\* str::trim_start
TrimStart(s) ==
    LET rest[u \in Seq(Nat)] ==
            IF u # <<>> /\ IsWhitespace(Head(u)) THEN rest[Tail(u)] ELSE u
    IN  rest[s]

\* str::trim_end
TrimEnd(s) ==
    LET front[u \in Seq(Nat)] ==
            IF u # <<>> /\ IsWhitespace(u[Len(u)])
                THEN front[SubSeq(u, 1, Len(u) - 1)] ELSE u
    IN  front[s]

\* str::trim_start in the place of str::trim
TrimStartOnly(s) == TrimStart(s)

\* str::trim
Trim(s) == TrimEnd(TrimStart(s))

\* Position of the first '\n' of s at or after p, 0 when there is none
FindLF(s, p) ==
    LET at[u \in Seq(Nat), k \in Nat] ==
            IF k > Len(u) THEN 0 ELSE IF u[k] = 10 THEN k ELSE at[u, k + 1]
    IN  at[s, p]

\* str::split('\n') in the place of str::lines: the "\r" stays, and so does
\* the empty piece after a final '\n'
RECURSIVE SplitLF(_)
SplitLF(s) ==
    LET k == FindLF(s, 1)
    IN  IF k = 0 THEN <<s>>
        ELSE <<SubSeq(s, 1, k - 1)>> \o SplitLF(SubSeq(s, k + 1, Len(s)))

\* str::lines: split after every '\n'; a piece loses its final "\n" and then
\* a final "\r"; the piece after the last '\n' is a line unless it is empty.
Lines(s) ==
    LET ls[u \in Seq(Nat)] ==
            IF u = <<>> THEN <<>>
            ELSE LET k == FindLF(u, 1)
                 IN  IF k = 0 THEN <<u>>
                     ELSE LET piece == SubSeq(u, 1, k - 1)
                              line == IF piece # <<>> /\ piece[Len(piece)] = 13
                                          THEN SubSeq(piece, 1, Len(piece) - 1)
                                          ELSE piece
                          IN  <<line>> \o ls[SubSeq(u, k + 1, Len(u))]
    IN  ls[s]

\* The loop of lines 105-109: new_buffer after the lines ls were pushed
PushLines(ls) ==
    LET new_buffer[u \in Seq(Seq(Nat))] ==
            IF u = <<>> THEN <<>>
            ELSE Trim(Head(u)) \o <<13, 10>> \o new_buffer[Tail(u)]
    IN  new_buffer[ls]

\* lines 105-111: the bytes written for buffer when args.xhtml is set
TrimBuffer(buffer) == AsBytes(PushLines(Lines(buffer)))

-----------------------------------------------------------------------------
(* The source archive *)

\* "  <p>Hi</p>  \n<b> </b>  "
DocScenario ==
    <<32, 32, 60, 112, 62, 72, 105, 60, 47, 112, 62, 32, 32, 10,
      60, 98, 62, 32, 60, 47, 98, 62, 32, 32>>

\* "\t<p>" U+0100 U+1F600 " x</p>\r\n  <i>aaaaaaaaaaaaaaaaaaaaaa</i> \n"
DocLong ==
    <<9, 60, 112, 62, 196, 128, 240, 159, 152, 128, 32, 120, 60, 47, 112, 62, 13, 10,
      32, 32, 60, 105, 62, 97, 97, 97, 97, 97, 97, 97, 97, 97, 97, 97, 97, 97, 97,
      97, 97, 97, 97, 97, 97, 97, 97, 60, 47, 105, 62, 32, 10>>

\* "<p>" 0xFF "</p>": not UTF-8
DocBad == <<60, 112, 62, 255, 60, 47, 112, 62>>

\* The entries an archive of the model is made of: name, ZipFile::is_file
\* and the uncompressed bytes.
Pool ==
    { [name |-> <<"a", ".", "x", "h", "t", "m", "l">>, is_file |-> TRUE, data |-> DocScenario],
      [name |-> <<"p", ".", "x", "h", "t", "m", "l">>, is_file |-> TRUE, data |-> DocLong],
      [name |-> <<"b", ".", "x", "h", "t", "m", "l">>, is_file |-> TRUE, data |-> DocBad],
      [name |-> <<"l", ".", "x", "h", "t", "m", "l">>, is_file |-> FALSE, data |-> <<112>>],
      [name |-> <<"i", ".", "j", "p", "g">>, is_file |-> TRUE, data |-> <<255, 216, 255>>],
      [name |-> <<"f", ".", "o", "t", "f">>, is_file |-> TRUE, data |-> <<79, 84, 84, 79>>],
      [name |-> <<"g", ".", "o", "t", "f">>, is_file |-> TRUE, data |-> <<79, 84>>],
      [name |-> <<"m", "i", "m", "e">>, is_file |-> TRUE, data |-> <<97, 112, 112>>],
      [name |-> <<"d", "/">>, is_file |-> FALSE, data |-> <<>>] }

\* A zip archive read by ZipArchive::new: entries in central-directory order,
\* no two under the same name.
Archives ==
    { a \in UNION {[1..n -> Pool] : n \in 0..MaxEntries} :
        \A x, y \in DOMAIN a : x # y => a[x].name # a[y].name }

\* What an engine (caesium::compress_in_memory, subsetter::subset) may return
\* on success: the engines are outside the repository.
EngineOut == {<<0>>, <<1, 1>>}

-----------------------------------------------------------------------------
(* main(): pass 1 *)

\* The archive gone over from its last entry to its first
FileReversed == archive[Len(archive) - i]

\* archive.by_index(i)
File == archive[i + 1]

\* line 69
CondImage(f) == args.images /\ f.is_file /\ EndsWith(f.name, ExtJpg)

\* line 82
CondFont(f) == args.fonts /\ f.is_file /\ EndsWith(f.name, ExtOtf)

\* line 87 without file.is_file()
CondXhtmlAnyEntry(f) == (args.xhtml \/ args.fonts) /\ EndsWith(f.name, ExtXhtml)

\* line 87 without the flags
CondXhtmlAlways(f) == f.is_file /\ EndsWith(f.name, ExtXhtml)

\* line 87
CondXhtml(f) == (args.xhtml \/ args.fonts) /\ f.is_file /\ EndsWith(f.name, ExtXhtml)

\* The prefixes of buf a single zip.write(buf) may take (lines 111, 114): the
\* count it returns is dropped, so what it did not take is never written.
ZipWrite(buf) ==
    IF Len(buf) <= WriteCapacity THEN {buf}
    ELSE {buf, SubSeq(buf, 1, WriteCapacity)}

InLoop == pc = "scan" /\ i < Len(archive)

\* lines 69-81, the engine returning Ok
CompressImage ==
    /\ InLoop
    /\ CondImage(File)
    /\ \E result \in EngineOut :
           zip' = Append(zip, [name |-> File.name, data |-> result])
    /\ handled' = Append(handled, "Image")
    /\ i' = i + 1
    /\ UNCHANGED <<args, archive, pc, font_files, used_chars, used_vec, fi,
                   calls, sealed, t, q>>

\* line 77, the engine returning Err: expect panics
CompressImageFails ==
    /\ InLoop
    /\ CondImage(File)
    /\ pc' = "panic"
    /\ UNCHANGED <<args, archive, i, zip, font_files, used_chars, used_vec, fi,
                   handled, calls, sealed, t, q>>

\* The font subset where it is met in pass 1, with the characters seen so far
DetectFontInline ==
    /\ InLoop
    /\ ~CondImage(File)
    /\ CondFont(File)
    /\ calls' = Append(calls, [index |-> i, data |-> File.data,
                               chars |-> used_chars, at |-> i])
    /\ \E result \in EngineOut :
           zip' = Append(zip, [name |-> File.name, data |-> result])
    /\ handled' = Append(handled, "Font")
    /\ i' = i + 1
    /\ UNCHANGED <<args, archive, pc, font_files, used_chars, used_vec, fi,
                   sealed, t, q>>

\* lines 82-86 with the font entry also copied where it is met
DetectFontAndCopy ==
    /\ InLoop
    /\ ~CondImage(File)
    /\ CondFont(File)
    /\ font_files' = Append(font_files, i)
    /\ zip' = Append(zip, [name |-> File.name, data |-> File.data])
    /\ handled' = Append(handled, "Font")
    /\ i' = i + 1
    /\ UNCHANGED <<args, archive, pc, used_chars, used_vec, fi,
                   calls, sealed, t, q>>

\* lines 82-86
DetectFont ==
    /\ InLoop
    /\ ~CondImage(File)
    /\ CondFont(File)
    /\ font_files' = Append(font_files, i)
    /\ handled' = Append(handled, "Font")
    /\ i' = i + 1
    /\ UNCHANGED <<args, archive, pc, zip, used_chars, used_vec, fi,
                   calls, sealed, t, q>>

\* lines 87-115 with the characters tracked under args.xhtml, not args.fonts
ScanXhtmlTracksIfTrim ==
    /\ InLoop
    /\ ~CondImage(File)
    /\ ~CondFont(File)
    /\ CondXhtml(File)
    /\ Utf8Valid(File.data)
    /\ LET in_data == File.data
           buffer == FromUtf8(in_data)
       IN  /\ used_chars' = IF args.xhtml
                               THEN used_chars \cup EncodeUtf16(buffer)
                               ELSE used_chars
           /\ \E written \in ZipWrite(IF args.xhtml THEN TrimBuffer(buffer) ELSE in_data) :
                  zip' = Append(zip, [name |-> File.name, data |-> written])
    /\ handled' = Append(handled, "Markup")
    /\ i' = i + 1
    /\ UNCHANGED <<args, archive, pc, font_files, used_vec, fi,
                   calls, sealed, t, q>>

\* lines 87-115, from_utf8 returning Ok
ScanXhtml ==
    /\ InLoop
    /\ ~CondImage(File)
    /\ ~CondFont(File)
    /\ CondXhtml(File)
    /\ Utf8Valid(File.data)
    /\ LET in_data == File.data
           buffer == FromUtf8(in_data)
       IN  /\ used_chars' = IF args.fonts
                               THEN used_chars \cup EncodeUtf16(buffer)
                               ELSE used_chars
           /\ \E written \in ZipWrite(IF args.xhtml THEN TrimBuffer(buffer) ELSE in_data) :
                  zip' = Append(zip, [name |-> File.name, data |-> written])
    /\ handled' = Append(handled, "Markup")
    /\ i' = i + 1
    /\ UNCHANGED <<args, archive, pc, font_files, used_vec, fi,
                   calls, sealed, t, q>>

\* line 93 with the entry that is not UTF-8 skipped in the place of the panic
ScanXhtmlSkipsNotUtf8 ==
    /\ InLoop
    /\ ~CondImage(File)
    /\ ~CondFont(File)
    /\ CondXhtml(File)
    /\ ~Utf8Valid(File.data)
    /\ handled' = Append(handled, "Markup")
    /\ i' = i + 1
    /\ UNCHANGED <<args, archive, pc, zip, font_files, used_chars, used_vec, fi,
                   calls, sealed, t, q>>

\* line 93, from_utf8 returning Err: expect panics
ScanXhtmlNotUtf8 ==
    /\ InLoop
    /\ ~CondImage(File)
    /\ ~CondFont(File)
    /\ CondXhtml(File)
    /\ ~Utf8Valid(File.data)
    /\ pc' = "panic"
    /\ UNCHANGED <<args, archive, i, zip, font_files, used_chars, used_vec, fi,
                   handled, calls, sealed, t, q>>

\* lines 116-119 starting the entry and copying nothing into it
CopyOtherNameOnly ==
    /\ InLoop
    /\ ~CondImage(File)
    /\ ~CondFont(File)
    /\ ~CondXhtml(File)
    /\ zip' = Append(zip, [name |-> File.name, data |-> <<>>])
    /\ handled' = Append(handled, "Passthrough")
    /\ i' = i + 1
    /\ UNCHANGED <<args, archive, pc, font_files, used_chars, used_vec, fi,
                   calls, sealed, t, q>>

\* lines 116-119
CopyOther ==
    /\ InLoop
    /\ ~CondImage(File)
    /\ ~CondFont(File)
    /\ ~CondXhtml(File)
    /\ zip' = Append(zip, [name |-> File.name, data |-> File.data])
    /\ handled' = Append(handled, "Passthrough")
    /\ i' = i + 1
    /\ UNCHANGED <<args, archive, pc, font_files, used_chars, used_vec, fi,
                   calls, sealed, t, q>>

-----------------------------------------------------------------------------
(* main(): pass 2 and the end *)

\* lines 120-124 with the loop of pass 1 left one entry early
EndScanOneShort ==
    /\ pc = "scan"
    /\ i + 1 >= Len(archive)
    /\ IF args.fonts
           THEN /\ used_vec' = used_chars
                /\ used_chars' = {}
                /\ pc' = "fonts"
           ELSE /\ pc' = "finish"
                /\ UNCHANGED <<used_chars, used_vec>>
    /\ UNCHANGED <<args, archive, i, zip, font_files, fi, handled, calls, sealed, t, q>>

\* lines 120-124 without pass 2
EndScanSkipsFonts ==
    /\ pc = "scan"
    /\ i = Len(archive)
    /\ pc' = "finish"
    /\ UNCHANGED <<args, archive, i, zip, font_files, used_chars, used_vec, fi,
                   handled, calls, sealed, t, q>>

\* lines 120-124: the loop is over; with args.fonts the set is drained into
\* a Vec (which shadows it) and pass 2 begins.
EndScan ==
    /\ pc = "scan"
    /\ i = Len(archive)
    /\ IF args.fonts
           THEN /\ used_vec' = used_chars
                /\ used_chars' = {}
                /\ pc' = "fonts"
           ELSE /\ pc' = "finish"
                /\ UNCHANGED <<used_chars, used_vec>>
    /\ UNCHANGED <<args, archive, i, zip, font_files, fi, handled, calls, sealed, t, q>>

InFonts == pc = "fonts" /\ fi <= Len(font_files)

\* lines 125-140 with font_files gone over from its last position to its first
SubsetFontReversed ==
    /\ InFonts
    /\ LET index == font_files[Len(font_files) - fi + 1]
           file == archive[index + 1]
       IN  /\ calls' = Append(calls, [index |-> index, data |-> file.data,
                                      chars |-> used_vec, at |-> i])
           /\ \E result \in EngineOut :
                  zip' = Append(zip, [name |-> file.name, data |-> result])
    /\ fi' = fi + 1
    /\ UNCHANGED <<args, archive, pc, i, font_files, used_chars, used_vec,
                   handled, sealed, t, q>>

\* lines 125-140, the engine returning Ok
SubsetFont ==
    /\ InFonts
    /\ LET file == archive[font_files[fi] + 1]
       IN  /\ calls' = Append(calls, [index |-> font_files[fi], data |-> file.data,
                                      chars |-> used_vec, at |-> i])
           /\ \E result \in EngineOut :
                  zip' = Append(zip, [name |-> file.name, data |-> result])
    /\ fi' = fi + 1
    /\ UNCHANGED <<args, archive, pc, i, font_files, used_chars, used_vec,
                   handled, sealed, t, q>>

\* line 135, the engine returning Err: expect panics
SubsetFontFails ==
    /\ InFonts
    /\ LET file == archive[font_files[fi] + 1]
       IN  calls' = Append(calls, [index |-> font_files[fi], data |-> file.data,
                                   chars |-> used_vec, at |-> i])
    /\ pc' = "panic"
    /\ UNCHANGED <<args, archive, i, zip, font_files, used_chars, used_vec, fi,
                   handled, sealed, t, q>>

\* lines 140-143 with the end of main reached only after a font
EndFontsIfAny ==
    /\ pc = "fonts"
    /\ fi > Len(font_files)
    /\ font_files # <<>>
    /\ pc' = "finish"
    /\ UNCHANGED <<args, archive, i, zip, font_files, used_chars, used_vec, fi,
                   handled, calls, sealed, t, q>>

\* lines 140-141: the loop over font_files is over
EndFonts ==
    /\ pc = "fonts"
    /\ fi > Len(font_files)
    /\ pc' = "finish"
    /\ UNCHANGED <<args, archive, i, zip, font_files, used_chars, used_vec, fi,
                   handled, calls, sealed, t, q>>

\* line 143
Finish ==
    /\ pc = "finish"
    /\ sealed' = TRUE
    /\ pc' = "done"
    /\ UNCHANGED <<args, archive, i, zip, font_files, used_chars, used_vec, fi,
                   handled, calls, t, q>>

\* An unwrap or expect on the archives' I/O fails (a corrupt entry, a full
\* disk): lines 68, 74, 80, 81, 92, 102, 111, 114, 118, 126, 131, 138, 139, 143.
IoFails ==
    /\ InLoop \/ InFonts \/ pc = "finish"
    /\ pc' = "panic"
    /\ UNCHANGED <<args, archive, i, zip, font_files, used_chars, used_vec, fi,
                   handled, calls, sealed, t, q>>

\* lines 60-64: 0..255 is exclusive of 255
SeedChars == 0..254

Idle == [stage |-> "off"]

Init ==
    /\ args \in [images : BOOLEAN, fonts : BOOLEAN, xhtml : BOOLEAN]
    /\ archive \in Archives
    /\ pc = "scan"
    /\ i = 0
    /\ zip = <<>>
    /\ font_files = <<>>
    /\ used_chars = SeedChars
    /\ used_vec = {}
    /\ fi = 1
    /\ handled = <<>>
    /\ calls = <<>>
    /\ sealed = FALSE
    /\ t = Idle
    /\ q = Idle

Next ==
    \/ CompressImage
    \/ CompressImageFails
    \/ DetectFont
    \/ ScanXhtml
    \/ ScanXhtmlNotUtf8
    \/ CopyOther
    \/ EndScan
    \/ SubsetFont
    \/ SubsetFontFails
    \/ EndFonts
    \/ Finish
    \/ IoFails

Spec == Init /\ [][Next]_vars

\* main() runs on as long as it has a step to take: it is a sequential
\* program that nothing suspends.
SpecLive == Spec /\ WF_vars(Next)

-----------------------------------------------------------------------------
(* SpecTrim: the trimming step on its own *)

\* The bytes the documents of SpecTrim are made of: '\n', '\r', ' ', 'a' and
\* the two bytes of U+00A0 (a white space of two bytes; alone, neither is UTF-8)
TrimBytes == {10, 13, 32, 97, 194, 160}

TrimDocs == UNION {[1..n -> TrimBytes] : n \in 0..MaxDocLen}

Off ==
    /\ args = [images |-> FALSE, fonts |-> FALSE, xhtml |-> FALSE]
    /\ archive = <<>>
    /\ pc = "off"
    /\ i = 0
    /\ zip = <<>>
    /\ font_files = <<>>
    /\ used_chars = {}
    /\ used_vec = {}
    /\ fi = 1
    /\ handled = <<>>
    /\ calls = <<>>
    /\ sealed = FALSE

InitTrim ==
    /\ Off
    /\ t \in {[stage |-> "read", in_data |-> d, once |-> <<>>, twice |-> <<>>] :
                d \in TrimDocs}
    /\ q = Idle

\* lines 93, 105-111 on in_data
TrimOnce ==
    /\ t.stage = "read"
    /\ Utf8Valid(t.in_data)
    /\ t' = [t EXCEPT !.stage = "once", !.once = TrimBuffer(FromUtf8(t.in_data))]
    /\ UNCHANGED <<pipeVars, q>>

\* line 93: in_data is not UTF-8
TrimNotUtf8 ==
    /\ t.stage = "read"
    /\ ~Utf8Valid(t.in_data)
    /\ t' = [t EXCEPT !.stage = "panic"]
    /\ UNCHANGED <<pipeVars, q>>

\* lines 93, 105-111 on the bytes the first run wrote
TrimTwice ==
    /\ t.stage = "once"
    /\ Utf8Valid(t.once)
    /\ t' = [t EXCEPT !.stage = "twice", !.twice = TrimBuffer(FromUtf8(t.once))]
    /\ UNCHANGED <<pipeVars, q>>

NextTrim ==
    \/ TrimOnce
    \/ TrimNotUtf8
    \/ TrimTwice

SpecTrim == InitTrim /\ [][NextTrim]_vars

-----------------------------------------------------------------------------
(* SpecQuality: image_quality_in_range *)

ArgChars == {"0", "1", "5", "9", "+", "-", "x"}

ArgStrings == UNION {[1..n -> ArgChars] : n \in 0..MaxArgLen}

Digits == <<"0", "1", "2", "3", "4", "5", "6", "7", "8", "9">>

IsDigit(c) == \E d \in 1..10 : Digits[d] = c

\* char::to_digit(10) of a digit
DigitValue(c) == (CHOOSE d \in 1..10 : Digits[d] = c) - 1

RECURSIVE DigitsValue(_, _)
DigitsValue(s, acc) ==
    IF s = <<>> THEN acc ELSE DigitsValue(Tail(s), acc * 10 + DigitValue(Head(s)))

\* line 147-149, s.parse::<usize>(): an optional '+', then one or more
\* decimal digits; -1 stands for Err.  (No string of the model is long enough
\* to overflow a usize.)
ParseUsize(s) ==
    LET body == IF s # <<>> /\ Head(s) = "+" THEN Tail(s) ELSE s
    IN  IF body = <<>> \/ \E k \in 1..Len(body) : ~IsDigit(body[k])
            THEN -1
            ELSE DigitsValue(body, 0)

\* line 150 with the inclusive range 1..=100
InRangeInclusive(x) == 1 <= x /\ x <= 100

\* line 150: (1..100).contains(&x)
InRange(x) == 1 <= x /\ x < 100

InitQuality ==
    /\ Off
    /\ t = Idle
    /\ q \in {[stage |-> "arg", s |-> s, value |-> 0] : s \in ArgStrings}

\* lines 147-149: parse fails, the error of map_err is returned
QualityNotANumber ==
    /\ q.stage = "arg"
    /\ ParseUsize(q.s) = -1
    /\ q' = [q EXCEPT !.stage = "err_not_a_number"]
    /\ UNCHANGED <<pipeVars, t>>

\* lines 150-151: Ok(x as u32); x < 100, so the cast keeps the value
QualityOk ==
    /\ q.stage = "arg"
    /\ ParseUsize(q.s) # -1
    /\ InRange(ParseUsize(q.s))
    /\ q' = [q EXCEPT !.stage = "ok", !.value = ParseUsize(q.s)]
    /\ UNCHANGED <<pipeVars, t>>

\* lines 152-156
QualityNotInRange ==
    /\ q.stage = "arg"
    /\ ParseUsize(q.s) # -1
    /\ ~InRange(ParseUsize(q.s))
    /\ q' = [q EXCEPT !.stage = "err_not_in_range"]
    /\ UNCHANGED <<pipeVars, t>>

NextQuality ==
    \/ QualityNotANumber
    \/ QualityOk
    \/ QualityNotInRange

SpecQuality == InitQuality /\ [][NextQuality]_vars

-----------------------------------------------------------------------------
(* The claims: shared vocabulary *)

\* The positions of the output archive that hold an entry named n
Written(n) == {m \in 1..Len(zip) : zip[m].name = n}

\* A markup entry of the source: a file whose name ends with .xhtml
IsMarkupEntry(e) == e.is_file /\ EndsWith(e.name, ExtXhtml)

\* The UTF-16 code units of the text of a payload
Units(data) == EncodeUtf16(FromUtf8(data))

PassOneOver == pc = "scan" /\ i = Len(archive)

-----------------------------------------------------------------------------
\* C1: when the run completes, every entry name of the source archive is the
\* name of exactly one entry of the output archive, whatever the flags (the
\* .otf entries deferred to pass 2 included).
C1_NamesPreserved ==
    pc = "done" =>
        \A k \in 1..Len(archive) : Cardinality(Written(archive[k].name)) = 1

\* A completed run over two entries or more, one of them a font deferred to
\* pass 2 and standing before an entry written in pass 1.
C1_Witness ==
    /\ pc = "done"
    /\ Len(archive) >= 2
    /\ font_files # <<>>
    /\ font_files[1] + 1 < Len(archive)

-----------------------------------------------------------------------------
\* C2: the font engine is invoked only once pass 1 is over, and the character
\* set of every invocation holds every UTF-16 code unit of every markup entry
\* of the source, those after the font entry included.
C2_FontsAfterAllMarkup ==
    \A c \in 1..Len(calls) :
        /\ args.fonts
        /\ calls[c].at = Len(archive)
        /\ \A k \in 1..Len(archive) :
               IsMarkupEntry(archive[k]) =>
                   /\ Utf8Valid(archive[k].data)
                   /\ Units(archive[k].data) \subseteq calls[c].chars

\* The engine was invoked for a font entry that stands before a markup entry
\* with characters outside the seed.
C2_Witness ==
    \E c \in 1..Len(calls) : \E k \in 1..Len(archive) :
        /\ calls[c].index < k - 1
        /\ IsMarkupEntry(archive[k])
        /\ Utf8Valid(archive[k].data)
        /\ ~(Units(archive[k].data) \subseteq SeedChars)

-----------------------------------------------------------------------------
\* C3 as stated: after pass 1, used_chars holds 0..254 and every UTF-16 code
\* unit of every markup entry that was scanned.
C3_AsStated ==
    PassOneOver =>
        /\ SeedChars \subseteq used_chars
        /\ \A k \in 1..Len(handled) :
               handled[k] = "Markup" => Units(archive[k].data) \subseteq used_chars

\* C3 as amended: after pass 1, used_chars holds 0..254, and, when fonts are
\* enabled, every UTF-16 code unit of every markup entry that was scanned.
C3_CharsAccumulated ==
    PassOneOver =>
        /\ SeedChars \subseteq used_chars
        /\ args.fonts =>
               \A k \in 1..Len(handled) :
                   handled[k] = "Markup" => Units(archive[k].data) \subseteq used_chars

\* Pass 1 is over, fonts are enabled, and a scanned markup entry has
\* characters outside the seed.
C3_Witness ==
    /\ PassOneOver
    /\ args.fonts
    /\ \E k \in 1..Len(handled) :
           handled[k] = "Markup" /\ ~(Units(archive[k].data) \subseteq SeedChars)

-----------------------------------------------------------------------------
\* No transform flag matches the entry: a directory (or any non-file) entry, a
\* .jpg with images off, an .otf with fonts off, an .xhtml with xhtml and
\* fonts off, any other name.
NoTransform(e) ==
    \/ ~e.is_file
    \/ EndsWith(e.name, ExtJpg) /\ ~args.images
    \/ EndsWith(e.name, ExtOtf) /\ ~args.fonts
    \/ EndsWith(e.name, ExtXhtml) /\ ~args.xhtml /\ ~args.fonts
    \/ ~EndsWith(e.name, ExtJpg) /\ ~EndsWith(e.name, ExtOtf) /\ ~EndsWith(e.name, ExtXhtml)

\* C4: an entry no transform flag matches is written to the output under its
\* name with exactly the bytes of the source.
C4_PassthroughIdentical ==
    \A k \in 1..Len(handled) :
        NoTransform(archive[k]) =>
            /\ Written(archive[k].name) # {}
            /\ \A m \in Written(archive[k].name) : zip[m].data = archive[k].data

\* A completed run that copied a .jpg (images off) with its bytes, and a
\* non-file entry.
C4_Witness ==
    /\ pc = "done"
    /\ ~args.images
    /\ \E k \in 1..Len(archive) :
           archive[k].is_file /\ EndsWith(archive[k].name, ExtJpg) /\ archive[k].data # <<>>
    /\ \E k \in 1..Len(archive) : ~archive[k].is_file

-----------------------------------------------------------------------------
\* A text is already trimmed: every line ends with CRLF and has no white
\* space at either end.
IsTrimmedText(s) ==
    /\ s = <<>> \/ s[Len(s)] = 10
    /\ \A p \in 1..Len(s) :
           s[p] = 10 =>
               /\ p > 1
               /\ s[p - 1] = 13
               /\ LET before == {r \in 1..(p - 1) : s[r] = 10}
                      first == IF before = {} THEN 1
                               ELSE (CHOOSE r \in before : \A r2 \in before : r2 <= r) + 1
                      last == p - 2
                  IN  first <= last =>
                          ~IsWhitespace(s[first]) /\ ~IsWhitespace(s[last])

\* C5: trimming is idempotent: trimming what trimming wrote gives the same
\* bytes, and trimming a document that is already trimmed gives the document.
C5_TrimIdempotent ==
    /\ t.stage = "twice" => t.twice = t.once
    /\ (t.stage \in {"once", "twice"} /\ IsTrimmedText(FromUtf8(t.in_data)))
           => t.once = t.in_data

\* A document that trimming changed, with something left, was trimmed twice.
C5_Witness ==
    /\ t.stage = "twice"
    /\ t.once # t.in_data
    /\ Len(t.once) > 2

-----------------------------------------------------------------------------
NameA == <<"a", ".", "x", "h", "t", "m", "l">>

\* The run of the scenario is complete: xhtml-trimming enabled, and a.xhtml
\* holding "  <p>Hi</p>  \n<b> </b>  " the single entry of the archive.
ScenarioDone ==
    /\ pc = "done"
    /\ args.xhtml
    /\ archive = <<[name |-> NameA, is_file |-> TRUE, data |-> DocScenario]>>

\* C6 as stated: the scenario writes "<p>Hi</p>\r\n<b></b>\r\n".
C6_AsStated ==
    ScenarioDone =>
        zip = <<[name |-> NameA,
                 data |-> <<60, 112, 62, 72, 105, 60, 47, 112, 62, 13, 10,
                            60, 98, 62, 60, 47, 98, 62, 13, 10>>]>>

\* C6 as amended: the scenario writes "<p>Hi</p>\r\n<b> </b>\r\n": the space
\* inside <b> </b> is not at an end of its line, and stays.
C6_Scenario ==
    ScenarioDone =>
        zip = <<[name |-> NameA,
                 data |-> <<60, 112, 62, 72, 105, 60, 47, 112, 62, 13, 10,
                            60, 98, 62, 32, 60, 47, 98, 62, 13, 10>>]>>

C6_Witness == ScenarioDone /\ Len(zip) = 1

-----------------------------------------------------------------------------
\* A line without the white space at its ends: what lies between its first
\* and its last character that is not white space.
Core(line) ==
    LET solid == {p \in 1..Len(line) : ~IsWhitespace(line[p])}
    IN  IF solid = {} THEN <<>>
        ELSE SubSeq(line,
                    CHOOSE p \in solid : \A r \in solid : p <= r,
                    CHOOSE p \in solid : \A r \in solid : r <= p)

\* The lines ls, in order, each without the white space at its ends and
\* followed by CRLF
RECURSIVE CoresWithCRLF(_)
CoresWithCRLF(ls) ==
    IF ls = <<>> THEN <<>>
    ELSE Core(Head(ls)) \o <<13, 10>> \o CoresWithCRLF(Tail(ls))

\* C7: with xhtml-trimming enabled, what is written for a markup entry is the
\* lines of its text in order, each without the white space at its ends
\* (the rest untouched), each followed by CRLF.
C7_TrimmedLinesWritten ==
    args.xhtml =>
        \A k \in 1..Len(handled) :
            handled[k] = "Markup" =>
                \A m \in Written(archive[k].name) :
                    zip[m].data = AsBytes(CoresWithCRLF(Lines(FromUtf8(archive[k].data))))

-----------------------------------------------------------------------------
\* The decimal numeral of a natural number
RECURSIVE Numeral(_)
Numeral(n) ==
    IF n < 10 THEN <<Digits[n + 1]>>
    ELSE Numeral(n \div 10) \o <<Digits[(n % 10) + 1]>>

RECURSIVE Pow10(_)
Pow10(k) == IF k = 0 THEN 1 ELSE 10 * Pow10(k - 1)

\* C8: the validator accepts the integer n exactly when 1 <= n < 100 (0 and
\* 100 are rejected, 1 and 99 accepted), and returns an accepted n unchanged;
\* nothing it accepts lies outside 1..99.
C8_QualityRange ==
    q.stage # "arg" =>
        /\ \A n \in 0..(Pow10(MaxArgLen) - 1) :
               q.s = Numeral(n) =>
                   /\ q.stage = "ok" <=> (1 <= n /\ n < 100)
                   /\ q.stage = "ok" => q.value = n
        /\ q.stage = "ok" => q.value \in 1..99
        /\ q.s = <<"0">> => q.stage # "ok"
        /\ q.s = <<"1", "0", "0">> => q.stage # "ok"
        /\ q.s = <<"1">> => q.stage = "ok" /\ q.value = 1
        /\ q.s = <<"9", "9">> => q.stage = "ok" /\ q.value = 99

\* The validator has accepted 99.
C8_Witness == q.stage = "ok" /\ q.s = <<"9", "9">> /\ q.value = 99

-----------------------------------------------------------------------------
\* The category of an entry by the rules, first match first
Category(e) ==
    IF args.images /\ e.is_file /\ EndsWith(e.name, ExtJpg) THEN "Image"
    ELSE IF args.fonts /\ e.is_file /\ EndsWith(e.name, ExtOtf) THEN "Font"
    ELSE IF (args.xhtml \/ args.fonts) /\ e.is_file /\ EndsWith(e.name, ExtXhtml)
        THEN "Markup"
    ELSE "Passthrough"

\* C9: every entry pass 1 has gone over was handled once, by the branch of
\* the category the rules give it from its name, its file flag and the flags
\* of the run.
C9_Classification ==
    /\ Len(handled) = i
    /\ \A k \in 1..Len(handled) : handled[k] = Category(archive[k])

\* A run has handled an image, a font and a markup entry.
C9_Witness ==
    /\ pc = "done"
    /\ {"Image", "Font", "Markup"} \subseteq {handled[k] : k \in 1..Len(handled)}

-----------------------------------------------------------------------------
\* C10: with fonts enabled and xhtml-trimming not, every .xhtml file entry
\* goes to Markup, its code units are in used_chars (as long as the set
\* lives), and the bytes written under its name are the bytes of the source.
C10_ScannedNotTrimmed ==
    (args.fonts /\ ~args.xhtml) =>
        \A k \in 1..Len(handled) :
            IsMarkupEntry(archive[k]) =>
                /\ handled[k] = "Markup"
                /\ pc = "scan" => Units(archive[k].data) \subseteq used_chars
                /\ \A m \in Written(archive[k].name) : zip[m].data = archive[k].data

-----------------------------------------------------------------------------
\* The phase of the orchestrator.  Pass 2 over an empty font_files iterates
\* nothing: SubsettingFonts is the phase of a pass 2 that has entries.
Phase ==
    IF pc = "scan" THEN "Scanning"
    ELSE IF pc = "fonts" THEN (IF font_files # <<>> THEN "SubsettingFonts" ELSE "Finalizing")
    ELSE IF pc = "finish" THEN "Finalizing"
    ELSE IF pc = "done" THEN "Done"
    ELSE "Aborted"

PhaseRank(p) ==
    IF p = "Scanning" THEN 1
    ELSE IF p = "SubsettingFonts" THEN 2
    ELSE IF p = "Finalizing" THEN 3
    ELSE IF p = "Done" THEN 4
    ELSE 5

\* A step keeps to the order of the phases: it never returns to a phase left
\* before, it leaves Scanning only with every entry handled, it enters
\* SubsettingFonts only from Scanning, with fonts enabled and font_files not
\* empty, it leaves SubsettingFonts for Finalizing only with every deferred
\* font handled, and it enters Done only from Finalizing.
PhaseStep ==
    /\ PhaseRank(Phase) <= PhaseRank(Phase')
    /\ (Phase = "Scanning" /\ Phase' \in {"SubsettingFonts", "Finalizing", "Done"})
           => i = Len(archive) /\ Len(handled) = Len(archive)
    /\ (Phase # "SubsettingFonts" /\ Phase' = "SubsettingFonts")
           => Phase = "Scanning" /\ args.fonts /\ font_files # <<>>
    /\ (Phase # "Finalizing" /\ Phase' = "Finalizing")
           => \/ Phase = "Scanning" /\ (~args.fonts \/ font_files = <<>>)
              \/ Phase = "SubsettingFonts" /\ fi = Len(font_files) + 1
                   /\ Len(calls) = Len(font_files)
    /\ (Phase # "Done" /\ Phase' = "Done") => Phase = "Finalizing"

\* C11: the phases only advance in the order Scanning, SubsettingFonts,
\* Finalizing, Done: a run starts in Scanning, no step returns to an earlier
\* phase, SubsettingFonts is entered only with fonts enabled and font_files
\* not empty, and no phase begins before the one before it is through.
C11_PhaseOrder ==
    /\ Phase = "Scanning"
    /\ [][PhaseStep]_vars

\* A run has gone through the four phases.
C11_Witness == pc = "done" /\ Len(calls) >= 2 /\ Len(zip) > Len(calls)

-----------------------------------------------------------------------------
-----------------------------------------------------------------------------
\* A font entry of the source: a file whose name ends with .otf
IsFontEntry(e) == e.is_file /\ EndsWith(e.name, ExtOtf)

\* The place in the source of the m-th entry of the output (names are distinct)
Src(m) == CHOOSE k \in 1..Len(archive) : archive[k].name = zip[m].name

\* The m-th entry of the output is a font entry of the source
FontAt(m) == IsFontEntry(archive[Src(m)])

\* C13: with fonts enabled no font entry is in the output while pass 1 runs,
\* and in the output every font entry stands after every other entry: the
\* fonts come after all that pass 1 wrote and nothing else is written once
\* the first font is.
C13_FontsOnlyInPassTwo ==
    args.fonts =>
        /\ pc = "scan" => \A m \in 1..Len(zip) : ~FontAt(m)
        /\ \A m, n \in 1..Len(zip) : (FontAt(m) /\ ~FontAt(n)) => n < m

\* A completed run wrote a font that stands in the source before an entry
\* written in pass 1.
C13_Witness ==
    /\ pc = "done"
    /\ args.fonts
    /\ \E m, n \in 1..Len(zip) : FontAt(m) /\ ~FontAt(n) /\ Src(m) < Src(n)

-----------------------------------------------------------------------------
\* Pass 1 goes over an entry classified as Font
FontStep == InLoop /\ Category(File) = "Font" /\ i' = i + 1

C14_Step ==
    FontStep =>
        /\ font_files' = Append(font_files, i)
        /\ zip' = zip
        /\ used_chars' = used_chars
        /\ used_vec' = used_vec
        /\ calls' = calls

\* C14: the step of pass 1 over an entry classified as Font appends the
\* position of the entry to font_files and nothing else: the output archive
\* and used_chars stay as they are, and the font's bytes go to no engine.
C14_FontDeferredOnly == [][C14_Step]_vars

\* Pass 1 has just gone over a font, after it wrote another entry.
C14_Witness ==
    /\ pc = "scan"
    /\ handled # <<>>
    /\ handled[Len(handled)] = "Font"
    /\ font_files # <<>>
    /\ font_files[Len(font_files)] = i - 1
    /\ zip # <<>>

-----------------------------------------------------------------------------
\* The entry pass 1 is at is classified as Markup and is not UTF-8
NotUtf8Markup == InLoop /\ Category(File) = "Markup" /\ ~Utf8Valid(File.data)

C15_Step ==
    /\ pc # "panic"
    /\ NotUtf8Markup => pc' = "panic"
    /\ pc' = "panic" =>
           /\ zip' = zip
           /\ i' = i
           /\ fi' = fi
           /\ handled' = handled
           /\ font_files' = font_files
           /\ ~sealed'
    /\ sealed' => pc' = "done"

\* C15: a fatal condition ends the run where it is met.  An entry classified
\* as Markup that is not UTF-8 panics; the step into a panic writes nothing
\* and goes over no entry; no step follows a panic; the archive is sealed only
\* by the step into Done, so an aborted run is never sealed.
C15_AbortsAtEntry == [][C15_Step]_vars

\* A run aborted at a Markup entry that is not UTF-8, after it wrote an entry
\* and with an entry still to go over.
C15_Witness ==
    /\ pc = "panic"
    /\ ~sealed
    /\ zip # <<>>
    /\ i + 1 < Len(archive)
    /\ Category(archive[i + 1]) = "Markup"
    /\ ~Utf8Valid(archive[i + 1].data)

-----------------------------------------------------------------------------
\* The set of code units: the HashSet of lines 60-64 until pass 2 drains it
\* into the Vec of line 124, the Vec from then on
UsedCharacterSet == IF used_chars = {} THEN used_vec ELSE used_chars

C16_Step ==
    /\ UsedCharacterSet \subseteq UsedCharacterSet'
    /\ ~args.fonts => UsedCharacterSet' = SeedChars
    /\ (pc # "scan" \/ i = Len(archive)) => UsedCharacterSet' = UsedCharacterSet
    /\ \A c \in 1..Len(calls') : calls'[c].chars = UsedCharacterSet'

\* C16: the set of code units starts as 0..254, no step takes an element out
\* of it, it stays 0..254 with fonts disabled, no step changes it once pass 1
\* is over, and every call of the font engine gets that same set.
C16_Lifecycle ==
    /\ UsedCharacterSet = SeedChars
    /\ [][C16_Step]_vars

\* A completed run called the font engine twice with one set larger than the
\* seed.
C16_Witness ==
    /\ pc = "done"
    /\ Len(calls) >= 2
    /\ calls[1].chars # SeedChars
    /\ calls[1].chars = calls[2].chars

-----------------------------------------------------------------------------
\* C17: font_files holds the positions of the entries gone over that are
\* classified as Font, each once and increasing; the calls of the font engine
\* are for the positions of font_files, one each and in that order, all of
\* them once pass 2 is over; there is no call with fonts disabled.
C17_DeferredFontIndex ==
    /\ \A c \in 1..Len(font_files) :
           /\ font_files[c] + 1 \in 1..Len(handled)
           /\ archive[font_files[c] + 1].is_file
           /\ Category(archive[font_files[c] + 1]) = "Font"
    /\ \A c, d \in 1..Len(font_files) : c < d => font_files[c] < font_files[d]
    /\ \A k \in 1..Len(handled) :
           Category(archive[k]) = "Font" =>
               \E c \in 1..Len(font_files) : font_files[c] = k - 1
    /\ Len(calls) <= Len(font_files)
    /\ \A c \in 1..Len(calls) : calls[c].index = font_files[c]
    /\ pc = "fonts" => Len(calls) = fi - 1
    /\ pc \in {"finish", "done"} => Len(calls) = Len(font_files)
    /\ ~args.fonts => calls = <<>> /\ font_files = <<>>

\* A completed run called the engine for two fonts that an entry parts in the
\* source.
C17_Witness ==
    /\ pc = "done"
    /\ Len(calls) = 2
    /\ calls[1].index + 1 < calls[2].index

-----------------------------------------------------------------------------
\* The m-th entry of the output was written in pass 1
InPassOne(m) == ~(args.fonts /\ FontAt(m))

C18_Order ==
    /\ \A m, n \in 1..Len(zip) :
           (m < n /\ InPassOne(m) /\ InPassOne(n)) => Src(m) < Src(n)
    /\ (~args.fonts /\ pc = "done") =>
           [m \in 1..Len(zip) |-> zip[m].name] = [k \in 1..Len(archive) |-> archive[k].name]

C18_Step ==
    \/ zip' = zip
    \/ /\ Len(zip') = Len(zip) + 1
       /\ SubSeq(zip', 1, Len(zip)) = zip

\* C18: a step leaves the output as it is or appends one entry to it; the
\* entries pass 1 wrote stand in the order of the source; with fonts disabled
\* the names of the output of a completed run are the names of the source in
\* the order of the source.
C18_AppendOnly == []C18_Order /\ [][C18_Step]_vars

\* A completed run with fonts disabled wrote three entries.
C18_Witness ==
    /\ pc = "done"
    /\ ~args.fonts
    /\ Len(zip) >= 3

-----------------------------------------------------------------------------
BothOff == ~args.xhtml /\ ~args.fonts

C19_Copied ==
    BothOff =>
        \A k \in 1..Len(handled) :
            IsMarkupEntry(archive[k]) =>
                /\ handled[k] = "Passthrough"
                /\ Written(archive[k].name) # {}
                /\ \A m \in Written(archive[k].name) : zip[m].data = archive[k].data

C19_Step ==
    /\ ScanXhtmlNotUtf8 => ~BothOff
    /\ (BothOff /\ InLoop /\ IsMarkupEntry(File) /\ i' = i + 1) =>
           /\ zip' = Append(zip, [name |-> File.name, data |-> File.data])
           /\ used_chars' = used_chars

\* C19: with xhtml and fonts both disabled an .xhtml file entry goes the way
\* of Passthrough and is written with the bytes of the source, UTF-8 or not;
\* the panic of line 93 is a step only of a run with xhtml or fonts enabled.
C19_NeverDecoded == []C19_Copied /\ [][C19_Step]_vars

\* A completed run with both flags disabled copied an .xhtml entry that is
\* not UTF-8.
C19_Witness ==
    /\ pc = "done"
    /\ BothOff
    /\ \E k \in 1..Len(archive) :
           /\ IsMarkupEntry(archive[k])
           /\ ~Utf8Valid(archive[k].data)
           /\ \E m \in Written(archive[k].name) : zip[m].data = archive[k].data

=============================================================================
